---- MODULE Spec2Model ----
(***************************************************************************)
(* The Dual-LLM consensus pipeline of src/api/core_logic.py                *)
(* (ConsensusEngine.run_pipeline: Proposer -> Verifier -> Merger) and the  *)
(* chunked entry point of src/api/index.py (extract_parameters_chunked).   *)
(*                                                                         *)
(* The two LLM providers are the environment: each reply is drawn from a   *)
(* bounded set of reply shapes.  JSON values are tagged records            *)
(* [t |-> tag, v |-> payload]; a Python dict is a TLA+ record whose fields *)
(* are the keys that are present, so dict.get(key, default) is a test on   *)
(* DOMAIN.  Confidences are counted in tenths (9 is 0.9) and               *)
(* confidence_avg in thousandths (800 is 0.8); sums and means are exact,   *)
(* which agrees with the float arithmetic of the code wherever the mean is *)
(* not within a float rounding error of a half thousandth.                 *)
(***************************************************************************)
EXTENDS Integers, Sequences, FiniteSets, TLC

VARIABLES
    pc,                  \* position of run_pipeline
    calls,               \* the stages this run has invoked, in order
    extraction_result,   \* ExtractionResult of the run
    proposed_params,     \* run_pipeline's local proposed_params
    verifier_reply,      \* what the Verifier's provider replied to the run
    verification_result, \* VerificationResult of the run
    result,              \* the dict run_pipeline returned
    nChunks,             \* len(chunks) in extract_parameters_chunked
    i,                   \* chunks processed so far by the handler's loop
    all_results,         \* the handler's all_results
    total_original,      \* the handler's total_original
    total_validated,     \* the handler's total_validated
    total_rejected,      \* the handler's total_rejected
    outcomes,            \* what run_pipeline returned for each chunk, in order
    response,            \* what the chunked handler answered
    text,                \* chunk_text's text, a sequence of characters
    max_chunk_size,      \* chunk_text's max_chunk_size
    chunk_pc,            \* "call" before chunk_text returns, "loop" after
    chunks,              \* the list chunk_text returned
    fed                  \* the chunks handed to run_pipeline so far, in order

vars == <<pc, calls, extraction_result, proposed_params, verifier_reply,
          verification_result, result, nChunks, i, all_results, total_original, total_validated,
          total_rejected, outcomes, response, text, max_chunk_size,
          chunk_pc, chunks, fed>>

pipelineVars == <<pc, calls, extraction_result, proposed_params,
                  verifier_reply, verification_result, result>>

chunkedVars == <<nChunks, i, all_results, total_original, total_validated,
                 total_rejected, outcomes, response>>

chunkerVars == <<text, max_chunk_size, chunk_pc, chunks, fed>>

----------------------------------------------------------------------------
(* Bounds *)

MaxCandidates == 2
MaxJudgments == 3
MaxChunks == 3
MaxTextLen == 6
MaxChunkSize == 4

----------------------------------------------------------------------------
(* JSON values *)

JNull == [t |-> "null", v |-> 0]
JNum(n) == [t |-> "num", v |-> n]
JStr(s) == [t |-> "str", v |-> s]
JBool(b) == [t |-> "bool", v |-> b]
JArr(s) == [t |-> "arr", v |-> s]
JObj(d) == [t |-> "obj", v |-> d]

\* dict.get(key, default)
Get(d, key, default) == IF key \in DOMAIN d THEN d[key] ELSE default

\* Python truth value of a parsed JSON value
Truthy(x) ==
    CASE x.t = "null" -> FALSE
      [] x.t = "bool" -> x.v
      [] x.t = "num" -> x.v # 0
      [] x.t = "str" -> x.v # ""
      [] x.t = "arr" -> x.v # <<>>
      [] OTHER -> DOMAIN x.v # {}

\* pydantic's List[dict]: a list whose items are all objects
IsListOfDict(x) ==
    /\ x.t = "arr"
    /\ \A k \in 1..Len(x.v) : x.v[k].t = "obj"

\* the Python list of dicts held by a valid List[dict] value
Dicts(x) == [k \in 1..Len(x.v) |-> x.v[k].v]

SeqsUpTo(S, n) == UNION {[1..k -> S] : k \in 0..n}

----------------------------------------------------------------------------
(* What the providers can reply *)

\* Candidate Parameters the Proposer can emit
CandidateMisa ==
    [name |-> JStr("misa"), excerpt |-> JStr("The misa CSR"),
     category |-> JStr("Named")]

CandidateXlen ==
    [name |-> JStr("XLEN"), excerpt |-> JStr("up to 2^XLEN"),
     category |-> JStr("Numeric")]

Candidates == {CandidateMisa, CandidateXlen}

CandidateLists(n) == SeqsUpTo({JObj(c) : c \in Candidates}, n)

\* A provider reply: the call raised, or it returned text that is not JSON,
\* or text that parses to body; fence is the markdown fence around the text.
Fences == {"none", "json", "plain"}

ProviderError == [kind |-> "error"]
NotJson(fence) == [kind |-> "text", fence |-> fence]
Json(fence, body) == [kind |-> "json", fence |-> fence, body |-> body]

ProposerBodies(n) ==
    {JArr(l) : l \in CandidateLists(n)}
      \cup {JObj([parameters |-> JArr(l)]) : l \in CandidateLists(n)}
      \cup {JObj(c) : c \in Candidates}
      \cup {JObj([parameters |-> JNull]), JArr(<<JStr("misa")>>), JNum(5)}

ProposerRepliesOver(bodies) ==
    {ProviderError}
      \cup {NotJson(f) : f \in Fences}
      \cup {Json(f, b) : f \in Fences, b \in bodies}

ProposerReplies == ProposerRepliesOver(ProposerBodies(MaxCandidates))

\* Verification Judgments the Verifier can emit: is_valid true, false or
\* absent; confidence a number, absent, null or a string; category corrected,
\* only original_category, or neither; name present or absent.
Judged(valid, conf) ==
    [name |-> JStr("misa"), category |-> JStr("ConfigDependent"),
     original_category |-> JStr("Named"), is_valid |-> JBool(valid),
     confidence |-> conf]

Judgments ==
    { Judged(TRUE, JNum(9)),
      Judged(TRUE, JNum(7)),
      [name |-> JStr("misa"), category |-> JStr("Named"),
       is_valid |-> JBool(TRUE)],
      Judged(TRUE, JNull),
      Judged(TRUE, JStr("high")),
      [name |-> JStr("XLEN"), original_category |-> JStr("Numeric"),
       confidence |-> JNum(9), verification_notes |-> JStr("verbatim")],
      [excerpt |-> JStr("up to 2^XLEN")],
      Judged(FALSE, JNum(9)),
      Judged(FALSE, JNull) }

JudgmentListsOver(js, n) == SeqsUpTo({JObj(j) : j \in js}, n)

Summary == [validated |-> JNum(1), rejected |-> JNum(0)]

\* objects with up to n judgments under results, bare arrays of up to m
VerifierBodies(js, n, m) ==
    {JObj([results |-> JArr(l)]) : l \in JudgmentListsOver(js, n)}
      \cup {JObj([results |-> JArr(l), summary |-> JObj(Summary)]) :
              l \in JudgmentListsOver(js, n)}
      \cup {JArr(l) : l \in JudgmentListsOver(js, m)}
      \cup {JObj([results |-> JArr(l), summary |-> JStr("2 of 3")]) :
              l \in JudgmentListsOver(js, 1)}
      \cup {JObj(j) : j \in js}
      \cup {JObj([summary |-> JObj(Summary)]), JObj([results |-> JNull]),
            JObj([results |-> JArr(<<JStr("misa")>>)]), JNum(5), JNull}

\* every body unfenced, and the bodies with at most one judgment fenced too
VerifierRepliesOver(js, n, m) ==
    {ProviderError}
      \cup {NotJson(f) : f \in Fences}
      \cup {Json("none", b) : b \in VerifierBodies(js, n, m)}
      \cup {Json(f, b) : f \in Fences, b \in VerifierBodies(js, 1, 1)}

VerifierReplies == VerifierRepliesOver(Judgments, MaxJudgments, MaxCandidates)

----------------------------------------------------------------------------
(* ConsensusEngine *)

\* _clean_json_response: strips a leading ```json or ``` and a trailing ```
CleanJsonResponse(reply) == [reply EXCEPT !.fence = "none"]

\* json.loads succeeds on JSON text that carries no fence
Parses(cleaned_text) == cleaned_text.kind = "json" /\ cleaned_text.fence = "none"

ExtractionResult(success, parameters, error) ==
    [success |-> success, parameters |-> parameters, error |-> error]

\* _extract_with_gemini, from the provider's reply on
ExtractWithGemini(reply) ==
    IF reply.kind = "error"
    THEN ExtractionResult(FALSE, <<>>, "Gemini extraction error")
    ELSE LET response_text == CleanJsonResponse(reply) IN
         IF ~Parses(response_text)
         THEN ExtractionResult(FALSE, <<>>, "Gemini JSON parse error")
         ELSE LET parsed == response_text.body
                  params == IF parsed.t = "obj"
                            THEN Get(parsed.v, "parameters", JArr(<<parsed>>))
                            ELSE parsed
              IN IF IsListOfDict(params)
                 THEN ExtractionResult(TRUE, Dicts(params), "None")
                 ELSE ExtractionResult(FALSE, <<>>, "Gemini extraction error")

VerificationResult(success, results, summary, error) ==
    [success |-> success, results |-> results, summary |-> summary,
     error |-> error]

\* _verify_with_llama, from the provider's reply on
VerifyWithLlama(reply) ==
    IF reply.kind = "error"
    THEN VerificationResult(FALSE, <<>>, JNull, "Llama verification error")
    ELSE IF ~Parses(reply)
    THEN VerificationResult(FALSE, <<>>, JNull, "Llama JSON parse error")
    ELSE LET verified_data == reply.body IN
         IF verified_data.t # "obj"
         THEN \* verified_data.get raises AttributeError
              VerificationResult(FALSE, <<>>, JNull, "Llama verification error")
         ELSE LET got == Get(verified_data.v, "results", JArr(<<>>))
                  results == IF ~Truthy(got) /\ verified_data.t = "arr"
                             THEN verified_data ELSE got
                  summary == Get(verified_data.v, "summary", JNull)
              IN IF IsListOfDict(results) /\ summary.t \in {"null", "obj"}
                 THEN VerificationResult(TRUE, Dicts(results), summary, "None")
                 ELSE VerificationResult(FALSE, <<>>, JNull,
                                         "Llama verification error")

\* confidence default of the Merger, in tenths
DefaultConfidence == 8

\* float + x: defined for a JSON number (or bool), a TypeError otherwise
Addable(x) == x.t \in {"num", "bool"}

NumOf(x) == IF x.t = "bool" THEN (IF x.v THEN 10 ELSE 0) ELSE x.v

\* round(total_confidence / n, 3), in thousandths, total_confidence in tenths
Round3(total_confidence, n) ==
    LET num == total_confidence * 100
        q == num \div n
        r == num % n
    IN IF 2 * r < n THEN q
       ELSE IF 2 * r > n THEN q + 1
       ELSE IF q % 2 = 0 THEN q ELSE q + 1

\* IsValid with False as the default of a missing is_valid
IsValidDefaultFalse(item) == Truthy(Get(item, "is_valid", JBool(FALSE)))

\* is_valid = item.get("is_valid", True); if is_valid:
IsValid(item) == Truthy(Get(item, "is_valid", JBool(TRUE)))

\* the dict appended to final_list for a valid judgment
Reshape(item, confidence) ==
    [name |-> Get(item, "name", JStr("Unknown")),
     excerpt |-> Get(item, "excerpt", JStr("")),
     category |-> Get(item, "category",
                      Get(item, "original_category", JStr("Unknown"))),
     confidence |-> confidence,
     verification_notes |-> Get(item, "verification_notes", JStr(""))]

\* one iteration of the loop over verified.results
MergeItem(acc, item) ==
    IF IsValid(item)
    THEN LET confidence == Get(item, "confidence", JNum(DefaultConfidence)) IN
         IF ~Addable(confidence)
         THEN [acc EXCEPT !.raised = TRUE]
         ELSE [acc EXCEPT
                 !.total_confidence = @ + NumOf(confidence),
                 !.final_list = Append(@, Reshape(item, confidence))]
    ELSE [acc EXCEPT !.rejected_count = @ + 1]

RECURSIVE MergeLoop(_, _)
MergeLoop(items, acc) ==
    IF items = <<>> \/ acc.raised THEN acc
    ELSE MergeLoop(Tail(items), MergeItem(acc, Head(items)))

\* AvgConfidence cutting the mean off after 3 decimals instead of rounding
AvgConfidenceTruncated(total_confidence, final_list) ==
    IF final_list # <<>>
    THEN (total_confidence * 100) \div Len(final_list)
    ELSE 0

\* avg_confidence, rounded as ConsensusResult receives it
AvgConfidence(total_confidence, final_list) ==
    IF final_list # <<>>
    THEN Round3(total_confidence, Len(final_list))
    ELSE 0

\* ConsensusResult taking original_count from the judgments
ConsensusResultCountingJudgments(proposed, verified, acc) ==
    [strategy |-> "Dual-LLM Consensus",
     model_a |-> "Gemini 1.5 Flash",
     model_b |-> "Llama 3 70B",
     original_count |-> Len(verified.results),
     validated_count |-> Len(acc.final_list),
     rejected_count |-> acc.rejected_count,
     confidence_avg |-> AvgConfidence(acc.total_confidence, acc.final_list),
     data |-> acc.final_list,
     verification_summary |-> verified.summary]

\* the ConsensusResult built from the loop's locals, as model_dump() gives it
ConsensusResult(proposed, verified, acc) ==
    [strategy |-> "Dual-LLM Consensus",
     model_a |-> "Gemini 1.5 Flash",
     model_b |-> "Llama 3 70B",
     original_count |-> Len(proposed),
     validated_count |-> Len(acc.final_list),
     rejected_count |-> acc.rejected_count,
     confidence_avg |-> AvgConfidence(acc.total_confidence, acc.final_list),
     data |-> acc.final_list,
     verification_summary |-> verified.summary]

\* _merge_results: the ConsensusResult, or the TypeError of the addition
MergeResults(proposed, verified) ==
    LET acc == MergeLoop(verified.results,
                         [raised |-> FALSE, final_list |-> <<>>,
                          rejected_count |-> 0, total_confidence |-> 0])
    IN IF acc.raised THEN [raised |-> TRUE]
       ELSE [raised |-> FALSE, value |-> ConsensusResult(proposed, verified, acc)]

\* run_pipeline's return when extraction failed
FailedResult(extraction) ==
    [error |-> extraction.error,
     phase |-> "extraction",
     strategy |-> "Dual-LLM Consensus"]

\* run_pipeline's return when nothing was proposed
EmptyResult ==
    [status |-> "No parameters found",
     strategy |-> "Dual-LLM Consensus",
     model_a |-> "Gemini 1.5 Flash",
     original_count |-> 0,
     data |-> <<>>]

\* DegradedResult with the count fields of a Consensus Result filled in
DegradedResultCounted(proposed, verification) ==
    [warning |-> <<"Verification phase failed", verification.error>>,
     strategy |-> "Single-LLM (Gemini only - unverified)",
     model_a |-> "Gemini 1.5 Flash",
     original_count |-> Len(proposed),
     validated_count |-> Len(proposed),
     data |-> proposed]

\* run_pipeline's return when verification failed
DegradedResult(proposed, verification) ==
    [warning |-> <<"Verification phase failed", verification.error>>,
     strategy |-> "Single-LLM (Gemini only - unverified)",
     model_a |-> "Gemini 1.5 Flash",
     original_count |-> Len(proposed),
     data |-> proposed]

\* AfterExtraction without the test of extraction_result.success
AfterExtractionUnchecked(extraction) ==
    IF extraction.parameters = <<>>
    THEN [next |-> "return", result |-> EmptyResult]
    ELSE [next |-> "verify"]

\* AfterExtraction without the test for an empty candidate list
AfterExtractionNoEmptyTest(extraction) ==
    IF ~extraction.success
    THEN [next |-> "return", result |-> FailedResult(extraction)]
    ELSE [next |-> "verify"]

\* run_pipeline from the Proposer's return to its next await or return
AfterExtraction(extraction) ==
    IF ~extraction.success
    THEN [next |-> "return", result |-> FailedResult(extraction)]
    ELSE IF extraction.parameters = <<>>
    THEN [next |-> "return", result |-> EmptyResult]
    ELSE [next |-> "verify"]

\* run_pipeline from the Verifier's return to its return (or raise)
AfterVerification(proposed, verification) ==
    IF ~verification.success
    THEN [next |-> "return", result |-> DegradedResult(proposed, verification)]
    ELSE LET consensus == MergeResults(proposed, verification) IN
         IF consensus.raised
         THEN [next |-> "raise"]
         ELSE [next |-> "return", result |-> consensus.value]

\* a whole run of run_pipeline, given what the two providers reply
RunPipeline(proposerReply, verifierReply) ==
    LET extraction == ExtractWithGemini(proposerReply)
        step == AfterExtraction(extraction)
    IN IF step.next # "verify" THEN step
       ELSE AfterVerification(extraction.parameters,
                              VerifyWithLlama(verifierReply))

----------------------------------------------------------------------------
(* run_pipeline, step by step *)

Unset == [unset |-> TRUE]

Init ==
    /\ pc = "start"
    /\ calls = <<>>
    /\ extraction_result = Unset
    /\ proposed_params = <<>>
    /\ verifier_reply = Unset
    /\ verification_result = Unset
    /\ result = Unset
    /\ nChunks = 0
    /\ i = 0
    /\ all_results = <<>>
    /\ total_original = 0
    /\ total_validated = 0
    /\ total_rejected = 0
    /\ outcomes = <<>>
    /\ response = Unset
    /\ text = <<>>
    /\ max_chunk_size = 0
    /\ chunk_pc = "idle"
    /\ chunks = <<>>
    /\ fed = <<>>

\* CallProposer issuing both provider calls at once
CallBothProviders ==
    /\ pc = "start"
    /\ pc' = "extracting"
    /\ calls' = <<"propose", "verify">>
    /\ UNCHANGED <<extraction_result, proposed_params, verifier_reply,
                   verification_result, result>>
    /\ UNCHANGED chunkedVars
    /\ UNCHANGED chunkerVars

\* run_pipeline is entered and awaits _extract_with_gemini
CallProposer ==
    /\ pc = "start"
    /\ pc' = "extracting"
    /\ calls' = Append(calls, "propose")
    /\ UNCHANGED <<extraction_result, proposed_params, verifier_reply,
                   verification_result, result>>
    /\ UNCHANGED chunkedVars
    /\ UNCHANGED chunkerVars

\* the Proposer call returns; run_pipeline returns or awaits the Verifier
ExtractionReturns ==
    /\ pc = "extracting"
    /\ \E reply \in ProposerReplies :
       LET extraction == ExtractWithGemini(reply)
           step == AfterExtraction(extraction)
       IN /\ extraction_result' = extraction
          /\ IF step.next = "return"
             THEN /\ result' = step.result
                  /\ pc' = "returned"
                  /\ UNCHANGED <<calls, proposed_params>>
             ELSE /\ proposed_params' = extraction.parameters
                  /\ calls' = Append(calls, "verify")
                  /\ pc' = "verifying"
                  /\ UNCHANGED result
    /\ UNCHANGED <<verifier_reply, verification_result>>
    /\ UNCHANGED chunkedVars
    /\ UNCHANGED chunkerVars

\* the Verifier call returns; run_pipeline degrades, merges or raises
VerificationReturns ==
    /\ pc = "verifying"
    /\ \E reply \in VerifierReplies :
       LET verification == VerifyWithLlama(reply)
           step == AfterVerification(proposed_params, verification)
       IN /\ verifier_reply' = reply
          /\ verification_result' = verification
          /\ calls' = IF verification.success
                      THEN Append(calls, "merge") ELSE calls
          /\ IF step.next = "return"
             THEN /\ result' = step.result
                  /\ pc' = "returned"
             ELSE /\ pc' = "raised"
                  /\ UNCHANGED result
    /\ UNCHANGED <<extraction_result, proposed_params>>
    /\ UNCHANGED chunkedVars
    /\ UNCHANGED chunkerVars

Next ==
    \/ CallProposer
    \/ ExtractionReturns
    \/ VerificationReturns

Spec == Init /\ [][Next]_vars

----------------------------------------------------------------------------
(* extract_parameters_chunked, one chunk of the loop at a time *)

\* What the providers reply to the chunks: the Proposer fails, finds nothing,
\* or finds one or two candidates; the Verifier fails, or judges with one
\* valid judgment, with a valid and a rejected one, or with a null confidence.
ChunkProposerReplies ==
    {ProviderError}
      \cup {Json("none", JArr(l)) :
              l \in {<<>>,
                     <<JObj(CandidateMisa)>>,
                     <<JObj(CandidateXlen), JObj(CandidateMisa)>>}}

ChunkVerifierReplies ==
    {ProviderError}
      \cup {Json("none", JObj([results |-> JArr(l)])) :
              l \in {<<JObj(Judged(TRUE, JNum(9)))>>,
                     <<JObj(Judged(TRUE, JNum(7))),
                       JObj(Judged(FALSE, JNum(9)))>>,
                     <<JObj(Judged(TRUE, JNull))>>}}

InitChunked ==
    /\ pc = "start"
    /\ calls = <<>>
    /\ extraction_result = Unset
    /\ proposed_params = <<>>
    /\ verifier_reply = Unset
    /\ verification_result = Unset
    /\ result = Unset
    /\ nChunks \in 1..MaxChunks
    /\ i = 0
    /\ all_results = <<>>
    /\ total_original = 0
    /\ total_validated = 0
    /\ total_rejected = 0
    /\ outcomes = <<>>
    /\ response = Unset
    /\ text = <<>>
    /\ max_chunk_size = 0
    /\ chunk_pc = "idle"
    /\ chunks = <<>>
    /\ fed = <<>>

\* Accumulate putting a chunk's data in front of the earlier chunks' data
AccumulatePrepending(acc, chunk_result) ==
    IF "error" \notin DOMAIN chunk_result
    THEN [all_results |-> Get(chunk_result, "data", <<>>) \o acc.all_results,
          total_original |->
              acc.total_original + Get(chunk_result, "original_count", 0),
          total_validated |->
              acc.total_validated + Get(chunk_result, "validated_count", 0),
          total_rejected |->
              acc.total_rejected + Get(chunk_result, "rejected_count", 0)]
    ELSE acc

\* the loop body after run_pipeline returned chunk_result
Accumulate(acc, chunk_result) ==
    IF "error" \notin DOMAIN chunk_result
    THEN [all_results |-> acc.all_results \o Get(chunk_result, "data", <<>>),
          total_original |->
              acc.total_original + Get(chunk_result, "original_count", 0),
          total_validated |->
              acc.total_validated + Get(chunk_result, "validated_count", 0),
          total_rejected |->
              acc.total_rejected + Get(chunk_result, "rejected_count", 0)]
    ELSE acc

\* the dict the handler returns after the loop
ChunkedResponse(acc) ==
    [strategy |-> "Dual-LLM Consensus (Chunked)",
     model_a |-> "Gemini 1.5 Flash",
     model_b |-> "Llama 3 70B",
     chunks_processed |-> nChunks,
     original_count |-> acc.total_original,
     validated_count |-> acc.total_validated,
     rejected_count |-> acc.total_rejected,
     data |-> acc.all_results]

\* except Exception: HTTPException(status_code=500)
ProcessingError == [status_code |-> 500, detail |-> "Processing error"]

\* one iteration of the loop: run_pipeline on the next chunk, then either the
\* HTTP 500 of a raise, or the totals updated and, after the last chunk, the
\* response
ProcessChunk ==
    /\ response = Unset
    /\ i < nChunks
    /\ \E proposerReply \in ChunkProposerReplies,
          verifierReply \in ChunkVerifierReplies :
          LET run == RunPipeline(proposerReply, verifierReply) IN
          IF run.next = "raise"
          THEN /\ response' = ProcessingError
               /\ UNCHANGED <<i, all_results, total_original, total_validated,
                              total_rejected, outcomes>>
          ELSE LET acc == Accumulate(
                              [all_results |-> all_results,
                               total_original |-> total_original,
                               total_validated |-> total_validated,
                               total_rejected |-> total_rejected],
                              run.result)
               IN /\ i' = i + 1
                  /\ outcomes' = Append(outcomes, run.result)
                  /\ all_results' = acc.all_results
                  /\ total_original' = acc.total_original
                  /\ total_validated' = acc.total_validated
                  /\ total_rejected' = acc.total_rejected
                  /\ response' = IF i + 1 = nChunks
                                 THEN ChunkedResponse(acc) ELSE Unset
    /\ UNCHANGED nChunks
    /\ UNCHANGED pipelineVars
    /\ UNCHANGED chunkerVars

NextChunked == ProcessChunk

SpecChunked == InitChunked /\ [][NextChunked]_vars

----------------------------------------------------------------------------
(* chunk_text, and the chunks the chunked handler hands to run_pipeline *)

\* Characters of the text: two letters, a blank and a newline
NL == "\n"

Whitespace == {" ", NL}

Alphabet == {"a", "b", " ", NL}

Texts == SeqsUpTo(Alphabet, MaxTextLen)

\* the paragraph separator "\n\n"
Separator == <<NL, NL>>

\* str.strip(): leading and trailing whitespace removed
RECURSIVE LStrip(_)
LStrip(s) ==
    IF s # <<>> /\ Head(s) \in Whitespace THEN LStrip(Tail(s)) ELSE s

RECURSIVE RStrip(_)
RStrip(s) ==
    IF s # <<>> /\ s[Len(s)] \in Whitespace
    THEN RStrip(SubSeq(s, 1, Len(s) - 1)) ELSE s

Strip(s) == RStrip(LStrip(s))

\* index of the leftmost "\n\n" in s, 0 when there is none
FirstSeparator(s) ==
    LET at == {k \in 1..(Len(s) - 1) : s[k] = NL /\ s[k + 1] = NL}
    IN IF at = {} THEN 0 ELSE CHOOSE k \in at : \A j \in at : k <= j

\* str.split("\n\n")
RECURSIVE Split(_)
Split(s) ==
    LET k == FirstSeparator(s) IN
    IF k = 0 THEN <<s>>
    ELSE <<SubSeq(s, 1, k - 1)>> \o Split(SubSeq(s, k + 2, Len(s)))

\* the packing test without the length accumulated so far
PackParagraphIgnoringCurrent(st, para, max_size) ==
    IF Len(para) + 2 <= max_size
    THEN [st EXCEPT !.current_chunk = @ \o para \o Separator]
    ELSE [chunks |-> IF st.current_chunk # <<>>
                     THEN Append(st.chunks, Strip(st.current_chunk))
                     ELSE st.chunks,
          current_chunk |-> para \o Separator]

\* the loop starting a new chunk without appending the one it leaves
PackParagraphLosingChunk(st, para, max_size) ==
    IF Len(st.current_chunk) + Len(para) + 2 <= max_size
    THEN [st EXCEPT !.current_chunk = @ \o para \o Separator]
    ELSE [chunks |-> st.chunks,
          current_chunk |-> para \o Separator]

\* one iteration of the loop over paragraphs
PackParagraph(st, para, max_size) ==
    IF Len(st.current_chunk) + Len(para) + 2 <= max_size
    THEN [st EXCEPT !.current_chunk = @ \o para \o Separator]
    ELSE [chunks |-> IF st.current_chunk # <<>>
                     THEN Append(st.chunks, Strip(st.current_chunk))
                     ELSE st.chunks,
          current_chunk |-> para \o Separator]

RECURSIVE PackLoop(_, _, _)
PackLoop(paragraphs, st, max_size) ==
    IF paragraphs = <<>> THEN st
    ELSE PackLoop(Tail(paragraphs),
                  PackParagraph(st, Head(paragraphs), max_size), max_size)

\* chunk_text that also trims the text it returns whole
ChunkTextOfTrimmingShort(txt, max_size) ==
    IF Len(txt) <= max_size THEN <<Strip(txt)>>
    ELSE LET st == PackLoop(Split(txt),
                            [chunks |-> <<>>, current_chunk |-> <<>>],
                            max_size)
         IN IF st.current_chunk # <<>>
            THEN Append(st.chunks, Strip(st.current_chunk))
            ELSE st.chunks

\* chunk_text(text, max_chunk_size)
ChunkTextOf(txt, max_size) ==
    IF Len(txt) <= max_size THEN <<txt>>
    ELSE LET st == PackLoop(Split(txt),
                            [chunks |-> <<>>, current_chunk |-> <<>>],
                            max_size)
         IN IF st.current_chunk # <<>>
            THEN Append(st.chunks, Strip(st.current_chunk))
            ELSE st.chunks

InitChunker ==
    /\ pc = "start"
    /\ calls = <<>>
    /\ extraction_result = Unset
    /\ proposed_params = <<>>
    /\ verifier_reply = Unset
    /\ verification_result = Unset
    /\ result = Unset
    /\ nChunks = 0
    /\ i = 0
    /\ all_results = <<>>
    /\ total_original = 0
    /\ total_validated = 0
    /\ total_rejected = 0
    /\ outcomes = <<>>
    /\ response = Unset
    /\ text \in Texts
    /\ max_chunk_size \in 0..MaxChunkSize
    /\ chunk_pc = "call"
    /\ chunks = <<>>
    /\ fed = <<>>

\* chunks = chunk_text(text, max_chunk_size)
ChunkText ==
    /\ chunk_pc = "call"
    /\ chunks' = ChunkTextOf(text, max_chunk_size)
    /\ chunk_pc' = "loop"
    /\ UNCHANGED <<text, max_chunk_size, fed>>
    /\ UNCHANGED pipelineVars
    /\ UNCHANGED chunkedVars

\* The handler refuses a text whose stripped length is below its minimum;
\* the minimum is scaled down with the length of the texts
MinTextLen == 1

\* for i, chunk in enumerate(chunks): run_pipeline(chunk)
FeedChunk ==
    /\ chunk_pc = "loop"
    /\ Len(Strip(text)) >= MinTextLen
    /\ Len(fed) < Len(chunks)
    /\ fed' = Append(fed, chunks[Len(fed) + 1])
    /\ UNCHANGED <<text, max_chunk_size, chunk_pc, chunks>>
    /\ UNCHANGED pipelineVars
    /\ UNCHANGED chunkedVars

NextChunker ==
    \/ ChunkText
    \/ FeedChunk

SpecChunker == InitChunker /\ [][NextChunker]_vars

----------------------------------------------------------------------------
(* Properties of run_pipeline *)

ExtractionFailed == extraction_result # Unset /\ ~extraction_result.success

ExtractionEmpty ==
    /\ extraction_result # Unset
    /\ extraction_result.success
    /\ extraction_result.parameters = <<>>

VerificationFailed ==
    verification_result # Unset /\ ~verification_result.success

Merged ==
    /\ pc = "returned"
    /\ verification_result # Unset
    /\ verification_result.success

IsProviderCall(c) == c \in {"propose", "verify"}

ProviderCalls == SelectSeq(calls, IsProviderCall)

\* C1: whenever the Proposer call has failed, the run has returned exactly
\* {error: the extraction error, phase: "extraction", strategy: "Dual-LLM
\* Consensus"} and no other key, and neither the Verifier nor the Merger was
\* invoked: the only stage the run called is the Proposer.
C1_ExtractionFailureHalts ==
    ExtractionFailed =>
        /\ pc = "returned"
        /\ DOMAIN result = {"error", "phase", "strategy"}
        /\ result.error = extraction_result.error
        /\ result.error \in {"Gemini JSON parse error", "Gemini extraction error"}
        /\ result.phase = "extraction"
        /\ result.strategy = "Dual-LLM Consensus"
        /\ calls = <<"propose">>
        /\ verification_result = Unset

C1_Witness ==
    /\ ExtractionFailed
    /\ pc = "returned"
    /\ result.error = "Gemini JSON parse error"

\* C2: whenever extraction gave at least one candidate and the Verifier call
\* has failed, the run has returned (it did not abort) a result whose data is
\* the Proposer's candidate list unchanged and in order, whose original_count
\* is the number of candidates, whose strategy is the unverified one, which
\* carries a warning with the failure reason, and which has neither a
\* validated_count nor an error field; the Merger was not invoked.
C2_VerifierFailureDegrades ==
    VerificationFailed =>
        /\ pc = "returned"
        /\ extraction_result.parameters # <<>>
        /\ result.data = extraction_result.parameters
        /\ result.original_count = Len(extraction_result.parameters)
        /\ result.strategy = "Single-LLM (Gemini only - unverified)"
        /\ "warning" \in DOMAIN result
        /\ result.warning = <<"Verification phase failed", verification_result.error>>
        /\ verification_result.error
             \in {"Llama JSON parse error", "Llama verification error"}
        /\ "validated_count" \notin DOMAIN result
        /\ "error" \notin DOMAIN result
        /\ calls = <<"propose", "verify">>

C2_Witness ==
    /\ VerificationFailed
    /\ verifier_reply = ProviderError
    /\ Len(result.data) = 2
    /\ result.data[1] # result.data[2]

\* C3: whenever extraction succeeded with zero candidates, the run has
\* returned the zero-result object (status "No parameters found",
\* original_count 0, data []) and the Verifier was never invoked.
C3_EmptyExtractionSkipsVerifier ==
    ExtractionEmpty =>
        /\ pc = "returned"
        /\ "status" \in DOMAIN result
        /\ result.status = "No parameters found"
        /\ result.original_count = 0
        /\ result.data = <<>>
        /\ calls = <<"propose">>
        /\ verifier_reply = Unset

C3_Witness ==
    /\ ExtractionEmpty
    /\ pc = "returned"
    /\ result.status = "No parameters found"

\* C4: the provider calls of a run are [propose] or [propose, verify]: the
\* Proposer is called exactly once, the Verifier at most once and only after
\* the Proposer call returned successfully with a non-empty candidate list
\* (the list the Verifier is given), and a failed call is never repeated.
C4_ProviderCallOrder ==
    /\ ProviderCalls \in {<<>>, <<"propose">>, <<"propose", "verify">>}
    /\ pc # "start" => Len(ProviderCalls) >= 1
    /\ ProviderCalls = <<"propose", "verify">> =>
           /\ extraction_result # Unset
           /\ extraction_result.success
           /\ extraction_result.parameters # <<>>
           /\ proposed_params = extraction_result.parameters
    /\ ExtractionFailed => ProviderCalls = <<"propose">>
    /\ VerificationFailed => ProviderCalls = <<"propose", "verify">>

C4_Witness ==
    /\ Merged
    /\ calls = <<"propose", "verify", "merge">>
    /\ Len(proposed_params) = 2

\* C5 (as claimed): for every combination of provider outcomes, judgments
\* with missing, null or wrongly-typed fields included, run_pipeline returns
\* (it never raises), and what it returns has an error key exactly when
\* extraction failed, a warning key exactly when verification failed, and is
\* otherwise the zero-result object or a Consensus Result.
C5_AlwaysReturnsWellFormed ==
    /\ pc # "raised"
    /\ pc = "returned" =>
           /\ "error" \in DOMAIN result <=> ExtractionFailed
           /\ "warning" \in DOMAIN result <=> VerificationFailed
           /\ ~ExtractionFailed /\ ~VerificationFailed =>
                  \/ result = EmptyResult
                  \/ DOMAIN result =
                        {"strategy", "model_a", "model_b", "original_count",
                         "validated_count", "rejected_count", "confidence_avg",
                         "data", "verification_summary"}

\* The judgments of the run, as the Verifier returned them
JudgmentsOfRun == verification_result.results

AcceptedByVerifier(j) ==
    "is_valid" \notin DOMAIN j \/ j.is_valid = JBool(TRUE)

RejectedByVerifier(j) ==
    "is_valid" \in DOMAIN j /\ j.is_valid = JBool(FALSE)

\* The Validated Parameter a judgment is reshaped into
ValidatedParameter(j) ==
    [name |-> IF "name" \in DOMAIN j THEN j.name ELSE JStr("Unknown"),
     excerpt |-> IF "excerpt" \in DOMAIN j THEN j.excerpt ELSE JStr(""),
     category |-> IF "category" \in DOMAIN j THEN j.category
                  ELSE IF "original_category" \in DOMAIN j
                       THEN j.original_category
                       ELSE JStr("Unknown"),
     confidence |-> IF "confidence" \in DOMAIN j THEN j.confidence
                    ELSE JNum(DefaultConfidence),
     verification_notes |-> IF "verification_notes" \in DOMAIN j
                            THEN j.verification_notes ELSE JStr("")]

\* C6: the Merger partitions the judgment list: data is, in judgment order,
\* one reshaped record per judgment whose is_valid is true or absent,
\* validated_count is len(data), rejected_count is the number of judgments
\* whose is_valid is false, and no rejected judgment appears in data.
C6_MergerPartitionsJudgments ==
    Merged =>
        LET accepted == SelectSeq(JudgmentsOfRun, AcceptedByVerifier)
            rejected == SelectSeq(JudgmentsOfRun, RejectedByVerifier)
        IN /\ Len(result.data) = Len(accepted)
           /\ \A k \in 1..Len(accepted) :
                  result.data[k] = ValidatedParameter(accepted[k])
           /\ result.validated_count = Len(result.data)
           /\ result.rejected_count = Len(rejected)
           /\ Len(result.data) + Len(rejected) = Len(JudgmentsOfRun)

C6_Witness ==
    /\ Merged
    /\ Len(JudgmentsOfRun) = 3
    /\ RejectedByVerifier(JudgmentsOfRun[1])
    /\ "is_valid" \notin DOMAIN JudgmentsOfRun[2]
    /\ "is_valid" \in DOMAIN JudgmentsOfRun[3]
    /\ AcceptedByVerifier(JudgmentsOfRun[3])
    /\ Len(result.data) = 2
    /\ result.data[1] # result.data[2]

\* Sum, in tenths, of the confidences of the judgments that were not
\* rejected, an absent confidence counting as 0.8
RECURSIVE ConfidenceSum(_)
ConfidenceSum(js) ==
    IF js = <<>> THEN 0
    ELSE (IF RejectedByVerifier(Head(js)) THEN 0
          ELSE IF "confidence" \in DOMAIN Head(js)
               THEN Head(js).confidence.v
               ELSE DefaultConfidence)
         + ConfidenceSum(Tail(js))

\* a (thousandths) is the mean of a total of s tenths over n items, rounded
\* to 3 decimals: no multiple of 0.001 is nearer to it
IsRoundedMean(a, s, n) ==
    /\ 2 * (a * n - 100 * s) <= n
    /\ 2 * (100 * s - a * n) <= n

\* C7: confidence_avg of a Consensus Result is the arithmetic mean of the
\* confidences of the records in data (absent counting as 0.8), rounded to 3
\* decimals, when data is non-empty, and 0.0 when validated_count is 0;
\* rejected judgments do not contribute (0.9 and 0.7 valid, one invalid: 0.8).
C7_ConfidenceAvgIsRoundedMean ==
    Merged =>
        /\ result.validated_count = 0 => result.confidence_avg = 0
        /\ result.data # <<>> =>
               /\ IsRoundedMean(result.confidence_avg,
                                ConfidenceSum(JudgmentsOfRun),
                                Len(result.data))
               /\ \A k \in 1..Len(result.data) :
                      result.data[k].confidence.t = "num"
        /\ JudgmentsOfRun = <<Judged(TRUE, JNum(9)), Judged(TRUE, JNum(7)),
                              Judged(FALSE, JNum(9))>>
               => result.confidence_avg = 800

C7_Witness ==
    /\ Merged
    /\ JudgmentsOfRun = <<Judged(TRUE, JNum(9)), Judged(TRUE, JNum(7)),
                          Judged(FALSE, JNum(9))>>
    /\ result.confidence_avg = 800
    /\ result.validated_count = 2

\* C8: in every Consensus Result run_pipeline returns, original_count is the
\* number of candidates the Proposer produced, and validated_count +
\* rejected_count = original_count whenever there is one judgment for every
\* candidate (as many judgments as candidates).
C8_CountsAddUp ==
    Merged =>
        /\ result.original_count = Len(extraction_result.parameters)
        /\ Len(JudgmentsOfRun) = Len(extraction_result.parameters) =>
               result.validated_count + result.rejected_count
                   = result.original_count

C8_Witness ==
    /\ Merged
    /\ Len(JudgmentsOfRun) = 2
    /\ Len(extraction_result.parameters) = 2
    /\ result.validated_count = 1
    /\ result.rejected_count = 1
    /\ result.original_count = 2

\* The Verifier replied a bare JSON array of judgments
BareArrayReply ==
    /\ verifier_reply # Unset
    /\ verifier_reply.kind = "json"
    /\ verifier_reply.fence = "none"
    /\ IsListOfDict(verifier_reply.body)

\* C10 (as claimed): when the Verifier's reply parses as JSON that has no
\* results key and is itself a list of judgments, verify succeeds with the
\* whole parsed value as the judgment list and the run is not DEGRADED.
C10_BareArrayIsJudgmentList ==
    BareArrayReply =>
        /\ verification_result.success
        /\ verification_result.results = Dicts(verifier_reply.body)
        /\ "warning" \notin DOMAIN result

----------------------------------------------------------------------------
(* Properties of extract_parameters_chunked *)

NotExtractionError(r) == "error" \notin DOMAIN r

\* The handler answered with the aggregate (not with an HTTP error)
Aggregated == "chunks_processed" \in DOMAIN response

RECURSIVE ConcatData(_)
ConcatData(rs) ==
    IF rs = <<>> THEN <<>>
    ELSE (IF "data" \in DOMAIN Head(rs) THEN Head(rs).data ELSE <<>>)
         \o ConcatData(Tail(rs))

RECURSIVE SumField(_, _)
SumField(rs, field) ==
    IF rs = <<>> THEN 0
    ELSE (IF field \in DOMAIN Head(rs) THEN Head(rs)[field] ELSE 0)
         + SumField(Tail(rs), field)

\* C9: chunks go through run_pipeline one at a time in source order, and
\* after any sequence of per-chunk outcomes the data gathered is the
\* concatenation, in chunk order, of the data lists of the chunks that did
\* not end in an extraction error, and original_count, validated_count and
\* rejected_count are the sums of those fields over the same chunks (a field
\* a chunk's result lacks counting 0); chunks that ended in an extraction
\* error contribute nothing.  The aggregate returned after the last chunk
\* carries exactly these values.
C9_AggregateOfChunks ==
    LET counted == SelectSeq(outcomes, NotExtractionError) IN
    /\ Len(outcomes) = i
    /\ i <= nChunks
    /\ all_results = ConcatData(counted)
    /\ total_original = SumField(counted, "original_count")
    /\ total_validated = SumField(counted, "validated_count")
    /\ total_rejected = SumField(counted, "rejected_count")
    /\ Aggregated =>
           /\ i = nChunks
           /\ response.chunks_processed = Len(outcomes)
           /\ response.data = ConcatData(counted)
           /\ response.original_count = SumField(counted, "original_count")
           /\ response.validated_count = SumField(counted, "validated_count")
           /\ response.rejected_count = SumField(counted, "rejected_count")

C9_Witness ==
    /\ Aggregated
    /\ nChunks = 3
    /\ "error" \in DOMAIN outcomes[1]
    /\ "warning" \in DOMAIN outcomes[2]
    /\ "validated_count" \in DOMAIN outcomes[3]
    /\ outcomes[3].rejected_count = 1
    /\ response.data = outcomes[2].data \o outcomes[3].data
    /\ Len(response.data) = 3
    /\ response.original_count = 4

----------------------------------------------------------------------------
(* Properties of chunk_text *)

\* chunk_text has returned
Chunked == chunk_pc = "loop"

\* the text fits in one chunk: len(text) <= max_chunk_size
Fits == Len(text) <= max_chunk_size

\* C11 as stated: a text with len(text) <= max_chunk_size comes back as
\* exactly one segment that equals the text with its leading and trailing
\* whitespace trimmed.
C11_ShortTextTrimmed ==
    (Chunked /\ Fits) => chunks = <<Strip(text)>>

\* C11 amended: a text with len(text) <= max_chunk_size comes back as exactly
\* one segment that equals the text unchanged, its leading and trailing
\* whitespace kept.
C11_ShortTextUnchanged ==
    (Chunked /\ Fits) => chunks = <<text>>

C11_Witness ==
    /\ Chunked
    /\ Fits
    /\ Strip(text) # text
    /\ Strip(text) # <<>>
    /\ chunks = <<text>>

\* the paragraphs of the input: text.split("\n\n")
Paragraphs == Split(text)

\* segment is one paragraph of the input, longer than max_chunk_size, alone
\* and whole (trimmed like every segment the loop builds)
OversizedParagraphAlone(segment) ==
    \E j \in DOMAIN Paragraphs :
        /\ Len(Paragraphs[j]) > max_chunk_size
        /\ segment = Strip(Paragraphs[j])

\* C12: every segment chunk_text returns has length at most max_chunk_size,
\* except a segment that is a single paragraph of the input whose own length
\* exceeds max_chunk_size; such a paragraph is a segment of its own, whole,
\* never packed together with another paragraph.
C12_SegmentsBounded ==
    Chunked =>
        \A k \in DOMAIN chunks :
            \/ Len(chunks[k]) <= max_chunk_size
            \/ OversizedParagraphAlone(chunks[k])

C12_Witness ==
    /\ Chunked
    /\ Len(chunks) = 2
    /\ Len(chunks[1]) > max_chunk_size
    /\ OversizedParagraphAlone(chunks[1])
    /\ Len(chunks[2]) <= max_chunk_size
    /\ chunks[2] # <<>>

\* the paragraphs of the segments, in segment order
RECURSIVE SplitAll(_)
SplitAll(segments) ==
    IF segments = <<>> THEN <<>>
    ELSE Split(Head(segments)) \o SplitAll(Tail(segments))

\* paragraphs with their leading and trailing whitespace trimmed, those that
\* are empty after trimming left out
RECURSIVE Trimmed(_)
Trimmed(paragraphs) ==
    IF paragraphs = <<>> THEN <<>>
    ELSE (IF Strip(Head(paragraphs)) = <<>> THEN <<>>
          ELSE <<Strip(Head(paragraphs))>>)
         \o Trimmed(Tail(paragraphs))

\* no paragraph of the input is empty or has leading or trailing whitespace
CleanParagraphs ==
    \A j \in DOMAIN Paragraphs :
        Paragraphs[j] # <<>> /\ Strip(Paragraphs[j]) = Paragraphs[j]

\* C13 as stated: splitting each segment on the double newline and
\* concatenating the paragraph lists in segment order reproduces the
\* paragraph sequence of the input, none duplicated and none dropped.
C13_ParagraphsReproduced ==
    Chunked => SplitAll(chunks) = Paragraphs

\* C13 amended: the paragraphs of the segments are the paragraphs of the
\* input in the original order once leading and trailing whitespace is
\* trimmed from every paragraph and the paragraphs left empty are dropped;
\* they are the paragraphs of the input exactly when no paragraph of the
\* input is empty or has leading or trailing whitespace.
C13_ParagraphsReproducedTrimmed ==
    Chunked =>
        /\ Trimmed(SplitAll(chunks)) = Trimmed(Paragraphs)
        /\ CleanParagraphs => SplitAll(chunks) = Paragraphs

C13_Witness ==
    /\ Chunked
    /\ ~Fits
    /\ Len(chunks) >= 2
    /\ SplitAll(chunks) # Paragraphs
    /\ Len(Trimmed(Paragraphs)) >= 2
    /\ Trimmed(SplitAll(chunks)) = Trimmed(Paragraphs)

----------------------------------------------------------------------------
(* Properties of the chunked entry point *)

\* C14: in the result of the chunked entry point validated_count equals
\* len(data) after any sequence of per-chunk outcomes, a chunk whose
\* verification failed included.
C14_ValidatedCountIsDataLength ==
    Aggregated => response.validated_count = Len(response.data)

\* C15: for a non-empty text and max_chunk_size >= 1, chunk_text returns at
\* least one segment and no empty segment, so no chunk the chunked entry
\* point hands to the pipeline is empty.
C15_NoEmptySegment ==
    (Chunked /\ text # <<>> /\ max_chunk_size >= 1) =>
        /\ chunks # <<>>
        /\ \A k \in DOMAIN chunks : chunks[k] # <<>>
        /\ \A k \in DOMAIN fed : fed[k] # <<>>

====
